---- MODULE Spec2Model ----
(***************************************************************************)
(* Weather aggregation service: the three provider adapters with their     *)
(* circuit breakers, the response cache and the query log, and the         *)
(* fan-out handlers compareCurrentWeather / getAllCurrentWeather.          *)
(*                                                                         *)
(* An async method is split at its await points: the synchronous prefix    *)
(* of a call is one action, and every continuation after an await (cache   *)
(* read, location search, provider response, cache write) is one action.   *)
(* The server listens only after loggerService.initialize() has resolved   *)
(* (config/apis.js 323-337), so logQuery always reaches the log table; the *)
(* SQLite store answers every read and log insert, and a cache write may   *)
(* be rejected.                                                            *)
(***************************************************************************)
EXTENDS Integers, Sequences, FiniteSets, TLC

\* ---------------------------------------------------------------- bounds
MaxCalls == 2            \* service calls started by single-source requests in one behaviour
MaxConcurrent == 2       \* single-source requests in flight at once
MaxTicks == 1            \* clock advances in one behaviour

\* ------------------------------------------------------ program constants
BreakerTimeoutMs == 60000
FailureThreshold == 5
CacheTtlMinutes == 5

DayMs == 24 * 60 * 60 * 1000
TickMs == 60 * 1000
\* the clock starts at 23:54:00 UTC of day 0, so that an entry cached at
\* once expires at 23:59:00 and the clock can pass midnight
StartTime == DayMs - 6 * TickMs

Services == <<"OpenWeatherMap", "WeatherAPI", "AccuWeather">>
Providers == {Services[i] : i \in 1..3}
Locations == {"London", "Leeds"}

AggSlots == 1..3
DirectSlots == 4..(3 + MaxConcurrent)
Slots == AggSlots \cup DirectSlots

VARIABLES
    now,             \* Date.now(), ms
    ticks,           \* number of clock advances so far
    apiKey,          \* provider -> config.apiKey is set and not the placeholder
    circuitBreaker,  \* provider -> [failures, lastFailureTime, state]
    weather_cache,   \* <<location, provider>> -> row of table weather_cache
    locationCache,   \* AccuWeatherService.locationCache: location -> stored key, or "none"
    query_logs,      \* table query_logs, in insertion order
    calls,           \* slot -> the service call running in it
    started,         \* number of service calls started by single-source requests
    streak,          \* provider -> getCurrentWeather calls that failed since the last one that returned
    agg,             \* the aggregation request: [pc, location, handler]
    results,         \* results of the aggregation, in insertion order
    errors,          \* errors of the aggregation, in insertion order
    response,        \* what the aggregation handler answered
    weatherObjects,  \* the records handed to the comparator, in iteration order
    comparison,      \* what performDetailedComparison returned
    metrics,         \* what calculateAccuracyMetrics returned
    logs,            \* the log rows handed to the statistics functions
    report,          \* what the statistics function returned
    payload,         \* a raw provider payload
    normalized,      \* the records transformCurrentWeatherData made of it, with their clock times
    request,         \* an HTTP request: [endpoint, location, source]
    reply,           \* the answer of its handler: [status, invoked]
    forecastCall,    \* a getForecast call: [provider, days, start, coldest, spread]
    forecast,        \* the forecast sequence it returned
    merged,          \* what Weather.mergeSources returned: [null, location, sources]
    api_metrics,     \* the row of table api_metrics for one API name and today
    logged,          \* the number of rows of query_logs for that API name and today
    metricCalls      \* caller -> its logQuery call: [pc, success, row]

vars == <<now, ticks, apiKey, circuitBreaker, weather_cache, locationCache,
          query_logs, calls, started, streak, agg, results, errors, response,
          weatherObjects, comparison, metrics, logs, report, payload, normalized,
          request, reply, forecastCall, forecast,
          merged, api_metrics, logged, metricCalls>>

svcVars == <<now, ticks, apiKey, circuitBreaker, weather_cache, locationCache,
             query_logs, calls, started, streak>>
aggVars == <<agg, results, errors, response>>
\* the arguments and results of the pure functions
cmpVars == <<weatherObjects, comparison, metrics>>
statVars == <<logs, report>>
normVars == <<payload, normalized>>
routeVars == <<request, reply>>
\* the variables of the request handlers and of the metrics table
forecastVars == <<forecastCall, forecast>>
mergeVars == <<merged>>
metricVars == <<api_metrics, logged, metricCalls>>
extVars == <<routeVars, forecastVars, mergeVars, metricVars>>
pureVars == <<cmpVars, statVars, normVars, extVars>>

\* ------------------------------------------------------------- comparator
\* A JavaScript number is held as an integer count of hundredths, null and
\* undefined as Null. The arithmetic below is exact; Math.round rounds to
\* the nearest integer, halves towards +Infinity.
Null == [null |-> TRUE, num |-> 0]
Num(x) == [null |-> FALSE, num |-> x]

\* Math.round(a / b), b > 0
RoundDiv(a, b) == (2 * a + b) \div (2 * b)

\* value || null: 0 is falsy
OrNull(x) == IF x.null \/ x.num = 0 THEN Null ELSE x

MetricNames == {"temperature", "humidity", "pressure", "windSpeed"}

\* Weather.getStandardizedCurrent, the fields the comparator reads:
\* temperature.celsius, humidity, pressure.hPa, wind.speed.mph, weather.main
getStandardizedCurrent(current) ==
    [temperature |-> OrNull(current.temperature),
     humidity |-> OrNull(current.humidity),
     pressure |-> OrNull(current.pressure),
     windSpeed |-> OrNull(current.windSpeed),
     main |-> IF current.main = "" THEN "Unknown" ELSE current.main]

RECURSIVE Sum(_)
Sum(q) == IF q = <<>> THEN 0 ELSE Head(q) + Sum(Tail(q))

SeqMin(q) == CHOOSE x \in {q[i] : i \in 1..Len(q)} : \A j \in 1..Len(q) : x <= q[j]
SeqMax(q) == CHOOSE x \in {q[i] : i \in 1..Len(q)} : \A j \in 1..Len(q) : x >= q[j]

RECURSIVE InsertSorted(_, _)
InsertSorted(x, q) ==
    IF q = <<>> THEN <<x>>
    ELSE IF x <= Head(q) THEN <<x>> \o q
    ELSE <<Head(q)>> \o InsertSorted(x, Tail(q))

\* [...values].sort((a, b) => a - b)
RECURSIVE SortAscending(_)
SortAscending(q) == IF q = <<>> THEN <<>> ELSE InsertSorted(Head(q), SortAscending(Tail(q)))

\* ComparisonController.calculateMedian and QueryLog.calculateMedian; unit is
\* the number of model units in 1 (100 for hundredths, 1 for milliseconds)
calculateMedian(values, unit) ==
    IF Len(values) = 0 THEN 0
    ELSE LET sorted == SortAscending(values)
             middle == Len(sorted) \div 2
         IN  IF Len(sorted) % 2 = 0
             THEN unit * RoundDiv(sorted[middle] + sorted[middle + 1], 2 * unit)
             ELSE sorted[middle + 1]

\* n^2 times the population variance of q, in squared units: the variance
\* does not change when every value is shifted by the minimum
VarianceTimesSquare(q) ==
    LET lo == SeqMin(q)
        d == [i \in 1..Len(q) |-> q[i] - lo]
    IN  Len(q) * Sum([i \in 1..Len(q) |-> d[i] * d[i]]) - Sum(d) * Sum(d)

\* Math.round(Math.sqrt(x / n^2)) for x >= 0
RoundSqrtDiv(x, n, bound) ==
    CHOOSE r \in 0..bound :
        /\ r = 0 \/ (2 * r - 1) * (2 * r - 1) * n * n <= 4 * x
        /\ 4 * x < (2 * r + 1) * (2 * r + 1) * n * n

NoMetric == [null |-> TRUE, values |-> <<>>, count |-> 0, min |-> 0, max |-> 0,
             mean |-> 0, median |-> 0, standardDeviation |-> 0, variance |-> 0,
             range |-> 0, agreement |-> FALSE]

\* the values compareMetric keeps: those that are not null after
\* getStandardizedCurrent
MetricValues(objects, metric) ==
    LET all == [i \in 1..Len(objects) |-> getStandardizedCurrent(objects[i])[metric]]
        kept == SelectSeq(all, LAMBDA v : ~v.null)
    IN  [i \in 1..Len(kept) |-> kept[i].num]

\* a comparison whose variance is the sample variance (divided by N - 1)
compareMetric_SampleVariance(objects, metric) ==
    LET values == MetricValues(objects, metric)
        n == Len(values)
        total == Sum(values)
        v == VarianceTimesSquare(values)
    IN  IF n = 0 THEN NoMetric
        ELSE [null |-> FALSE,
              values |-> values,
              count |-> n,
              min |-> SeqMin(values),
              max |-> SeqMax(values),
              mean |-> RoundDiv(total, n),
              median |-> calculateMedian(values, 100),
              standardDeviation |-> RoundSqrtDiv(v, n, SeqMax(values) - SeqMin(values) + 1),
              variance |-> IF n = 1 THEN 0 ELSE RoundDiv(v, 100 * n * (n - 1)),
              range |-> SeqMax(values) - SeqMin(values),
              agreement |-> total > 0 /\ (100 * v) \div total < total]

\* ComparisonController.compareMetric; mean, median, standardDeviation and
\* variance in hundredths
compareMetric(objects, metric) ==
    LET values == MetricValues(objects, metric)
        n == Len(values)
        total == Sum(values)
        v == VarianceTimesSquare(values)
    IN  IF n = 0 THEN NoMetric
        ELSE [null |-> FALSE,
              values |-> values,
              count |-> n,
              min |-> SeqMin(values),
              max |-> SeqMax(values),
              mean |-> RoundDiv(total, n),
              median |-> calculateMedian(values, 100),
              standardDeviation |-> RoundSqrtDiv(v, n, SeqMax(values) - SeqMin(values) + 1),
              variance |-> RoundDiv(v, 100 * n * n),
              range |-> SeqMax(values) - SeqMin(values),
              \* standardDeviation < mean * 0.1, both unrounded
              agreement |-> total > 0 /\ (100 * v) \div total < total]

NoComparison == [null |-> TRUE, temperature |-> NoMetric, humidity |-> NoMetric,
                 pressure |-> NoMetric, windSpeed |-> NoMetric,
                 consensus |-> [temperature |-> Null, humidity |-> Null,
                                pressure |-> Null, windSpeed |-> Null]]

\* comparison.consensus: Math.round(m.mean) in whole units (perUnit 100),
\* Math.round(m.mean * 10) / 10 in tenths (perUnit 10)
Consensus(m, perUnit) ==
    IF m.null THEN Null ELSE Num(RoundDiv(m.mean, perUnit))

\* ComparisonController.performDetailedComparison
performDetailedComparison(objects) ==
    IF Len(objects) < 2 THEN NoComparison
    ELSE LET c == [m \in MetricNames |-> compareMetric(objects, m)]
         IN  [null |-> FALSE,
              temperature |-> c["temperature"], humidity |-> c["humidity"],
              pressure |-> c["pressure"], windSpeed |-> c["windSpeed"],
              consensus |-> [temperature |-> Consensus(c["temperature"], 100),
                             humidity |-> Consensus(c["humidity"], 100),
                             pressure |-> Consensus(c["pressure"], 100),
                             windSpeed |-> Consensus(c["windSpeed"], 10)]]

\* Object.keys(conditionCounts): the conditions in order of first occurrence
RECURSIVE Keys(_)
Keys(q) ==
    IF q = <<>> THEN <<>>
    ELSE LET rest == Keys(SubSeq(q, 1, Len(q) - 1))
             last == q[Len(q)]
         IN  IF \E i \in 1..Len(rest) : rest[i] = last THEN rest ELSE Append(rest, last)

Votes(q, c) == Cardinality({i \in 1..Len(q) : q[i] = c})

\* Object.keys(conditionCounts).reduce((a, b) =>
\*     conditionCounts[a] > conditionCounts[b] ? a : b, null)
\* a is <<>> for null: conditionCounts[null] is undefined and compares false
RECURSIVE MostCommon(_, _, _)
MostCommon(keys, a, q) ==
    IF keys = <<>> THEN a
    ELSE MostCommon(Tail(keys),
             IF a # <<>> /\ Votes(q, a[1]) > Votes(q, Head(keys)) THEN a ELSE <<Head(keys)>>, q)

NoMetrics == [null |-> TRUE, temperature |-> [present |-> FALSE, agreement |-> FALSE, maxDifference |-> 0],
              humidity |-> [present |-> FALSE, agreement |-> FALSE, maxDifference |-> 0],
              weatherCondition |-> [present |-> FALSE, consensus |-> <<>>, votes |-> 0, of |-> 0]]

\* the numeric part of calculateAccuracyMetrics: every value within tol of
\* the mean, and max - min (the unrounded standard deviation is left out)
NumericAccuracy(values, tol) ==
    IF Len(values) > 1
    THEN [present |-> TRUE,
          agreement |-> \A i \in 1..Len(values) :
                            /\ Len(values) * values[i] - Sum(values) <= tol * Len(values)
                            /\ Sum(values) - Len(values) * values[i] <= tol * Len(values),
          maxDifference |-> SeqMax(values) - SeqMin(values)]
    ELSE [present |-> FALSE, agreement |-> FALSE, maxDifference |-> 0]

\* ComparisonController.calculateAccuracyMetrics on the standardized records
calculateAccuracyMetrics(objects) ==
    IF Len(objects) < 2 THEN NoMetrics
    ELSE LET conditions == [i \in 1..Len(objects) |-> getStandardizedCurrent(objects[i]).main]
             best == MostCommon(Keys(conditions), <<>>, conditions)
         IN  [null |-> FALSE,
              temperature |-> NumericAccuracy(MetricValues(objects, "temperature"), 200),
              humidity |-> NumericAccuracy(MetricValues(objects, "humidity"), 1000),
              weatherCondition |->
                  IF Len(conditions) > 1
                  THEN [present |-> TRUE, consensus |-> best,
                        votes |-> Votes(conditions, best[1]), of |-> Len(conditions)]
                  ELSE [present |-> FALSE, consensus |-> <<>>, votes |-> 0, of |-> 0]]

\* ------------------------------------------------------------- statistics
\* a log row as the statistics functions read it: api name, response time
\* in ms, status and the date of its timestamp
Successes(q) == Cardinality({i \in 1..Len(q) : q[i].status = "success"})
Errors(q) == Cardinality({i \in 1..Len(q) : q[i].status = "error"})

\* logs.map(log => log.responseTime || 0)
ResponseTimes(q) == [i \in 1..Len(q) |-> q[i].responseTime]

\* .filter(time => time > 0)
Positive(times) == SelectSeq(times, LAMBDA t : t > 0)

ZeroStats == [total |-> 0, successful |-> 0, failed |-> 0, successRate |-> 0,
              averageResponseTime |-> 0, medianResponseTime |-> 0,
              minResponseTime |-> 0, maxResponseTime |-> 0]

\* QueryLog.calculateStats
calculateStats(q) ==
    IF Len(q) = 0 THEN ZeroStats
    ELSE LET responseTimes == Positive(ResponseTimes(q))
             some == Len(responseTimes) > 0
         IN  [total |-> Len(q),
              successful |-> Successes(q),
              failed |-> Errors(q),
              successRate |-> RoundDiv(100 * Successes(q), Len(q)),
              averageResponseTime |-> IF some THEN RoundDiv(Sum(responseTimes), Len(responseTimes)) ELSE 0,
              medianResponseTime |-> IF some THEN calculateMedian(responseTimes, 1) ELSE 0,
              minResponseTime |-> IF some THEN SeqMin(responseTimes) ELSE 0,
              maxResponseTime |-> IF some THEN SeqMax(responseTimes) ELSE 0]

\* one entry of calculateApiBreakdown and of calculateDailyStats: the group
\* is never empty; a status other than success counts as failed
GroupStats(group) ==
    [total |-> Len(group),
     successful |-> Successes(group),
     failed |-> Len(group) - Successes(group),
     successRate |-> RoundDiv(100 * Successes(group), Len(group)),
     averageResponseTime |-> RoundDiv(Sum(ResponseTimes(group)), Len(group)),
     medianResponseTime |-> calculateMedian(Positive(ResponseTimes(group)), 1),
     minResponseTime |-> 0,
     maxResponseTime |-> 0]

ApiNames(q) == {q[i].apiName : i \in 1..Len(q)}
Dates(q) == {q[i].date : i \in 1..Len(q)}
OfApi(q, a) == SelectSeq(q, LAMBDA row : row.apiName = a)
OfDate(q, d) == SelectSeq(q, LAMBDA row : row.date = d)

\* QueryLog.calculateApiBreakdown
calculateApiBreakdown(q) == [a \in ApiNames(q) |-> GroupStats(OfApi(q, a))]

\* ComparisonController.calculateDailyStats
calculateDailyStats(q) == [d \in Dates(q) |-> GroupStats(OfDate(q, d))]

\* getAccuracyHistory: the logs grouped by api; per api the totals and the
\* daily breakdown, here keyed by <<api, date>>
AccuracyTotals(q) ==
    [a \in ApiNames(q) |->
        [ZeroStats EXCEPT !.total = Len(OfApi(q, a)),
                          !.successRate = RoundDiv(100 * Successes(OfApi(q, a)), Len(OfApi(q, a))),
                          !.averageResponseTime =
                              RoundDiv(Sum(ResponseTimes(OfApi(q, a))), Len(OfApi(q, a)))]]

AccuracyDaily(q) ==
    [k \in {<<q[i].apiName, q[i].date>> : i \in 1..Len(q)} |->
        calculateDailyStats(OfApi(q, k[1]))[k[2]]]

NoQueryStats == [totalQueries |-> 0, successfulQueries |-> 0, failedQueries |-> 0,
                 averageResponseTime |-> 0, successRate |-> 0]

\* a getQueryStats that averages over the rows with a response time only
getQueryStats_LatencyOnly(q) ==
    IF Len(q) = 0 THEN NoQueryStats
    ELSE [totalQueries |-> Len(q),
          successfulQueries |-> Successes(q),
          failedQueries |-> Errors(q),
          averageResponseTime |->
              IF Len(Positive(ResponseTimes(q))) = 0 THEN 0
              ELSE RoundDiv(Sum(ResponseTimes(q)), Len(Positive(ResponseTimes(q)))),
          successRate |-> RoundDiv(100 * Successes(q), Len(q))]

\* LoggerService.getQueryStats on the rows getQueryLogs returned: the totals
getQueryStats(q) ==
    IF Len(q) = 0 THEN NoQueryStats
    ELSE [totalQueries |-> Len(q),
          successfulQueries |-> Successes(q),
          failedQueries |-> Errors(q),
          averageResponseTime |-> RoundDiv(Sum(ResponseTimes(q)), Len(q)),
          successRate |-> RoundDiv(100 * Successes(q), Len(q))]

\* stats.apiBreakdown of getQueryStats
QueryApiBreakdown(q) ==
    [a \in ApiNames(q) |->
        [ZeroStats EXCEPT !.total = Len(OfApi(q, a)),
                          !.successful = Successes(OfApi(q, a)),
                          !.failed = Len(OfApi(q, a)) - Successes(OfApi(q, a)),
                          !.averageResponseTime =
                              RoundDiv(Sum(ResponseTimes(OfApi(q, a))), Len(OfApi(q, a)))]]

\* stats.dailyBreakdown of getQueryStats
QueryDailyBreakdown(q) ==
    [d \in Dates(q) |->
        [ZeroStats EXCEPT !.total = Len(OfDate(q, d)),
                          !.successful = Successes(OfDate(q, d)),
                          !.failed = Len(OfDate(q, d)) - Successes(OfDate(q, d))]]

NoReport == [of |-> "none", stats |-> ZeroStats, groups |-> <<>>, daily |-> <<>>,
             query |-> NoQueryStats]

\* ---------------------------------------------------------- normalization
NoPayload == [provider |-> "none", temp |-> 0, humidity |-> 0, wind |-> 0, observed |-> 0,
              uv |-> Null, gust |-> Null]

\* ------------------------------------------------------------ data shapes
NoCall == [pc |-> "idle", svc |-> "none", loc |-> "none", op |-> "none",
           owner |-> "none", startTime |-> 0, t1 |-> 0, status |-> "error",
           rt |-> 0, valid |-> FALSE, net |-> 0, logs |-> 0, seen |-> "none",
           fresh |-> FALSE, hit |-> FALSE, wfail |-> FALSE, err |-> "none"]

NoRow == [present |-> FALSE, expiresAt |-> 0, valid |-> FALSE]

NoResponse == [status |-> 0, success |-> FALSE, hasErrors |-> FALSE,
               successful |-> 0, failed |-> 0]

NewBreaker == [failures |-> 0, lastFailureTime |-> 0, state |-> "CLOSED"]

LogEntry(api, loc, params, rt, status, hasError) ==
    [apiName |-> api, location |-> loc, params |-> params,
     responseTime |-> rt, status |-> status, error |-> hasError]

\* what is left of a call once it has settled: its outcome, not its timers
Finished(c) == [c EXCEPT !.startTime = 0, !.t1 = 0, !.rt = 0, !.wfail = FALSE]

Settled(c) == c.pc \in {"returned", "thrown", "skipped"}
InFlight(c) == c.pc \in {"cache", "loc", "net", "write", "floc", "fnet"}

\* ------------------------------------------------------------ time, cache
\* Date.toISOString(): "YYYY-MM-DDTHH:MM:SS.sssZ", as the sequence of its
\* date, the separator's character code and the time of day
ToISOString(t) == <<t \div DayMs, 84, t % DayMs>>

\* SQLite datetime("now"): "YYYY-MM-DD HH:MM:SS"
SqlDatetimeNow(t) == <<t \div DayMs, 32, ((t % DayMs) \div 1000) * 1000>>

\* SQLite compares two TEXT values left to right
RECURSIVE TextGreater(_, _)
TextGreater(a, b) ==
    IF a = <<>> THEN FALSE
    ELSE IF b = <<>> THEN TRUE
    ELSE IF Head(a) # Head(b) THEN Head(a) > Head(b)
    ELSE TextGreater(Tail(a), Tail(b))

\* the comparison the other way round
RowLive_Reversed(row, t) ==
    row.present /\ TextGreater(SqlDatetimeNow(t), ToISOString(row.expiresAt))

\* WHERE ... AND expires_at > datetime("now")
RowLive(row, t) ==
    row.present /\ TextGreater(ToISOString(row.expiresAt), SqlDatetimeNow(t))

getCachedWeather(loc, p, t) ==
    IF RowLive(weather_cache[<<loc, p>>], t) THEN weather_cache[<<loc, p>>] ELSE NoRow

ExpiresAt(t, ttlMinutes) == t + ttlMinutes * 60 * 1000

setCachedWeather(loc, p, valid, t, ttlMinutes) ==
    [weather_cache EXCEPT ![<<loc, p>>] =
        [present |-> TRUE, expiresAt |-> ExpiresAt(t, ttlMinutes), valid |-> valid]]

\* the entry is not expired in the sense of its TTL
Unexpired(loc, p, t) ==
    weather_cache[<<loc, p>>].present /\ t < weather_cache[<<loc, p>>].expiresAt

\* ---------------------------------------------------------------- breaker
\* the check at the head of getCurrentWeather
BreakerGate(cb, t) ==
    IF cb.state = "OPEN"
    THEN IF t - cb.lastFailureTime < BreakerTimeoutMs THEN "reject" ELSE "half"
    ELSE "pass"

\* the catch block's update
RecordFailure(cb, t) ==
    [failures |-> cb.failures + 1,
     lastFailureTime |-> t,
     state |-> IF cb.failures + 1 >= FailureThreshold THEN "OPEN" ELSE cb.state]

\* a reset that closes the breaker and keeps the count
RecordSuccess_KeepsCount(cb) == [cb EXCEPT !.state = "CLOSED"]

\* "Reset circuit breaker on success"
RecordSuccess(cb) == [cb EXCEPT !.failures = 0, !.state = "CLOSED"]

\* ------------------------------------------------------- fan-out wrapper
\* a callback without the catch: a thrown error is recorded nowhere
WrapperSettles_Uncaught(c, returned, valid, msg) ==
    IF c.owner = "agg"
    THEN IF returned /\ valid
         THEN /\ results' = Append(results, c.svc)
              /\ errors' = errors
         ELSE /\ results' = results
              /\ errors' = IF returned
                           THEN Append(errors, [source |-> c.svc,
                                                error |-> "Invalid weather data received"])
                           ELSE errors
    ELSE UNCHANGED <<results, errors>>

\* the callback of services.map: what it does with the settled service call
WrapperSettles(c, returned, valid, msg) ==
    IF c.owner = "agg"
    THEN IF returned /\ valid
         THEN /\ results' = Append(results, c.svc)
              /\ errors' = errors
         ELSE /\ results' = results
              /\ errors' = Append(errors,
                     [source |-> c.svc,
                      error |-> IF returned THEN "Invalid weather data received" ELSE msg])
    ELSE UNCHANGED <<results, errors>>

\* --------------------------------------------------- service call, entry
\* a prefix that counts the rejected call as one more failure
EnterCurrent_CountsReject(p, loc, owner) ==
    LET cb == circuitBreaker[p]
        gate == BreakerGate(cb, now)
        base == [NoCall EXCEPT !.svc = p, !.loc = loc, !.op = "current",
                               !.owner = owner, !.startTime = now,
                               !.fresh = Unexpired(loc, p, now)]
    IN  IF ~apiKey[p]
        THEN [call |-> Finished([base EXCEPT !.pc = "thrown", !.seen = "nokey",
                                             !.err = "API key not configured"]),
              cb |-> cb]
        ELSE IF gate = "reject"
        THEN [call |-> Finished([base EXCEPT !.pc = "thrown", !.seen = "reject",
                                             !.err = "Circuit breaker is OPEN"]),
              cb |-> RecordFailure(cb, now)]
        ELSE [call |-> [base EXCEPT !.pc = "cache", !.seen = gate],
              cb |-> IF gate = "half" THEN [cb EXCEPT !.state = "HALF_OPEN"] ELSE cb]

\* synchronous prefix of getCurrentWeather, up to the first await
EnterCurrent(p, loc, owner) ==
    LET cb == circuitBreaker[p]
        gate == BreakerGate(cb, now)
        base == [NoCall EXCEPT !.svc = p, !.loc = loc, !.op = "current",
                               !.owner = owner, !.startTime = now,
                               !.fresh = Unexpired(loc, p, now)]
    IN  IF ~apiKey[p]
        THEN [call |-> Finished([base EXCEPT !.pc = "thrown", !.seen = "nokey",
                                             !.err = "API key not configured"]),
              cb |-> cb]
        ELSE IF gate = "reject"
        THEN [call |-> Finished([base EXCEPT !.pc = "thrown", !.seen = "reject",
                                             !.err = "Circuit breaker is OPEN"]),
              cb |-> cb]
        ELSE [call |-> [base EXCEPT !.pc = "cache", !.seen = gate],
              cb |-> IF gate = "half" THEN [cb EXCEPT !.state = "HALF_OPEN"] ELSE cb]

\* the keys the location search of the provider may answer with
LocationKeys == {"328328", "712327"}

\* new Map(): nothing is stored
EmptyLocationCache == [loc \in Locations |-> "none"]

\* getLocationKey without the lookup in the Map: every call asks the provider
NeedsLocationSearch_Always(p, loc) == p = "AccuWeather"

\* getLocationKey, up to its await: a cached key needs no request
NeedsLocationSearch(p, loc) == p = "AccuWeather" /\ locationCache[loc] = "none"

\* synchronous prefix of getForecast, up to the first await
EnterForecast(p, loc, owner) ==
    LET base == [NoCall EXCEPT !.svc = p, !.loc = loc, !.op = "forecast",
                               !.owner = owner, !.startTime = now, !.t1 = now,
                               !.seen = circuitBreaker[p].state]
    IN  IF ~apiKey[p]
        THEN Finished([base EXCEPT !.pc = "thrown", !.seen = "nokey",
                                   !.err = "API key not configured"])
        ELSE [base EXCEPT !.pc = IF NeedsLocationSearch(p, loc) THEN "floc" ELSE "fnet",
                          !.net = 1]

StreakAfter(c) ==
    IF c.op = "current" /\ c.pc = "thrown" THEN [streak EXCEPT ![c.svc] = @ + 1]
    ELSE IF c.op = "current" /\ c.pc = "returned" THEN [streak EXCEPT ![c.svc] = 0]
    ELSE streak

\* the slot of a new single-source request; requests that were answered are gone
FreeSlot == CHOOSE s \in DirectSlots :
                /\ ~InFlight(calls[s])
                /\ \A r \in DirectSlots : r < s => InFlight(calls[r])

Admit(c) ==
    [s \in Slots |-> IF s = FreeSlot THEN c
                     ELSE IF s \in DirectSlots /\ ~InFlight(calls[s]) THEN NoCall
                     ELSE calls[s]]

\* WeatherController.getCurrentWeather: one source, service.getCurrentWeather(location)
SingleCurrent(p, loc) ==
    /\ apiKey[p]
    /\ started < MaxCalls
    /\ \E s \in DirectSlots : ~InFlight(calls[s])
    /\ LET e == EnterCurrent(p, loc, "single")
       IN  /\ calls' = Admit(e.call)
           /\ circuitBreaker' = [circuitBreaker EXCEPT ![p] = e.cb]
           /\ streak' = StreakAfter(e.call)
    /\ started' = started + 1
    /\ UNCHANGED <<now, ticks, apiKey, weather_cache, locationCache, query_logs>>
    /\ UNCHANGED aggVars
    /\ UNCHANGED pureVars

\* WeatherController.getForecast: one source, service.getForecast(location, days)
SingleForecast(p, loc) ==
    /\ apiKey[p]
    /\ started < MaxCalls
    /\ \E s \in DirectSlots : ~InFlight(calls[s])
    /\ calls' = Admit(EnterForecast(p, loc, "single"))
    /\ started' = started + 1
    /\ UNCHANGED <<now, ticks, apiKey, circuitBreaker, weather_cache, locationCache,
                   query_logs, streak>>
    /\ UNCHANGED aggVars
    /\ UNCHANGED pureVars

\* ------------------------------------------- service call, continuations
\* the catch block of getCurrentWeather: count the failure, log with the
\* current value of status, rethrow; first holds what getLocationKey logged
CatchCurrent(s, c, msg, first) ==
    LET done == Finished([c EXCEPT !.pc = "thrown", !.logs = @ + Len(first) + 1, !.err = msg])
    IN  /\ circuitBreaker' = [circuitBreaker EXCEPT ![c.svc] = RecordFailure(@, now)]
        /\ query_logs' = query_logs \o first \o
               <<LogEntry(c.svc, c.loc, "error", now - c.startTime, c.status, TRUE)>>
        /\ calls' = [calls EXCEPT ![s] = done]
        /\ streak' = StreakAfter(done)
        /\ WrapperSettles(c, FALSE, FALSE, msg)

\* the catch block of getForecast: log, rethrow; the breaker is not touched
CatchForecast(s, c, msg, first) ==
    LET done == Finished([c EXCEPT !.pc = "thrown", !.logs = @ + Len(first) + 1, !.err = msg])
    IN  /\ query_logs' = query_logs \o first \o
               <<LogEntry(c.svc, c.loc, "forecast_error", now - c.startTime, c.status, TRUE)>>
        /\ calls' = [calls EXCEPT ![s] = done]
        /\ UNCHANGED <<circuitBreaker, streak, results, errors>>

\* database.getCachedWeather resolved
CacheRead(s) ==
    LET c == calls[s]
        row == getCachedWeather(c.loc, c.svc, now)
    IN  /\ c.pc = "cache"
        /\ IF row.present
           THEN LET done == Finished([c EXCEPT !.pc = "returned", !.hit = TRUE,
                                               !.valid = row.valid, !.logs = @ + 1])
                IN  /\ query_logs' = Append(query_logs,
                           LogEntry(c.svc, c.loc, "cache", 0, "success", FALSE))
                    /\ calls' = [calls EXCEPT ![s] = done]
                    /\ streak' = StreakAfter(done)
                    /\ WrapperSettles(c, TRUE, row.valid, "none")
           ELSE /\ calls' = [calls EXCEPT ![s] =
                       [c EXCEPT !.pc = IF NeedsLocationSearch(c.svc, c.loc) THEN "loc" ELSE "net",
                                 !.t1 = now, !.net = @ + 1]]
                /\ UNCHANGED <<query_logs, streak, results, errors>>
        /\ UNCHANGED <<now, ticks, apiKey, circuitBreaker, weather_cache, locationCache,
                       started, agg, response>>
        /\ UNCHANGED pureVars

\* the location search of getLocationKey answered
LocationAnswers(s, found) ==
    LET c == calls[s]
    IN  /\ c.pc \in {"loc", "floc"}
        /\ IF found
           THEN /\ \E key \in LocationKeys :
                       locationCache' = [locationCache EXCEPT ![c.loc] = key]
                /\ query_logs' = Append(query_logs,
                       LogEntry(c.svc, c.loc, "location_search", now - c.t1, "success", FALSE))
                /\ calls' = [calls EXCEPT ![s] =
                       [c EXCEPT !.pc = IF c.pc = "loc" THEN "net" ELSE "fnet",
                                 !.net = @ + 1, !.logs = @ + 1]]
                /\ UNCHANGED <<circuitBreaker, streak, results, errors>>
           ELSE /\ locationCache' = locationCache
                /\ LET first == <<LogEntry(c.svc, c.loc, "location_search_error",
                                           now - c.t1, "error", TRUE)>>
                   IN  IF c.pc = "loc"
                       THEN CatchCurrent(s, c, "location search error", first)
                       ELSE CatchForecast(s, c, "location search error", first)
        /\ UNCHANGED <<now, ticks, apiKey, weather_cache, started, agg, response>>
        /\ UNCHANGED pureVars

\* the provider answered the request of getCurrentWeather:
\*   ok        a payload that transforms into a valid record
\*   invalid   a payload that transforms into a record failing Weather.isValid
\*   malformed a payload on which transformCurrentWeatherData throws
\*   fail      timeout, transport error or HTTP error status
ProviderAnswers(s, outcome, writeOk) ==
    LET c == calls[s]
    IN  /\ c.pc = "net"
        /\ IF outcome \in {"ok", "invalid"}
           THEN /\ calls' = [calls EXCEPT ![s] =
                       [c EXCEPT !.pc = "write", !.status = "success",
                                 !.rt = now - c.startTime,
                                 !.valid = (outcome = "ok"), !.wfail = ~writeOk]]
                /\ weather_cache' =
                       IF writeOk
                       THEN setCachedWeather(c.loc, c.svc, outcome = "ok", now, CacheTtlMinutes)
                       ELSE weather_cache
                /\ UNCHANGED <<circuitBreaker, query_logs, streak, results, errors>>
           ELSE /\ writeOk
                /\ CatchCurrent(s, IF outcome = "malformed" THEN [c EXCEPT !.status = "success"] ELSE c,
                                outcome, <<>>)
                /\ UNCHANGED weather_cache
        /\ UNCHANGED <<now, ticks, apiKey, locationCache, started, agg, response>>
        /\ UNCHANGED pureVars

\* database.setCachedWeather settled
CacheWritten(s) ==
    LET c == calls[s]
    IN  /\ c.pc = "write"
        /\ IF c.wfail
           THEN CatchCurrent(s, c, "cache write failed", <<>>)
           ELSE LET done == Finished([c EXCEPT !.pc = "returned", !.logs = @ + 1])
                IN  /\ circuitBreaker' = [circuitBreaker EXCEPT ![c.svc] = RecordSuccess(@)]
                    /\ query_logs' = Append(query_logs,
                           LogEntry(c.svc, c.loc, "request", c.rt, c.status, FALSE))
                    /\ calls' = [calls EXCEPT ![s] = done]
                    /\ streak' = StreakAfter(done)
                    /\ WrapperSettles(c, TRUE, c.valid, "none")
        /\ UNCHANGED <<now, ticks, apiKey, weather_cache, locationCache, started,
                       agg, response>>
        /\ UNCHANGED pureVars

\* the provider answered the request of getForecast
ForecastAnswers(s, outcome) ==
    LET c == calls[s]
    IN  /\ c.pc = "fnet"
        /\ IF outcome = "ok"
           THEN /\ query_logs' = Append(query_logs,
                       LogEntry(c.svc, c.loc, "forecast", now - c.startTime, "success", FALSE))
                /\ calls' = [calls EXCEPT ![s] =
                       Finished([c EXCEPT !.pc = "returned", !.status = "success",
                                          !.valid = TRUE, !.logs = @ + 1])]
                /\ UNCHANGED <<circuitBreaker, streak, results, errors>>
           ELSE CatchForecast(s, IF outcome = "malformed" THEN [c EXCEPT !.status = "success"] ELSE c,
                              outcome, <<>>)
        /\ UNCHANGED <<now, ticks, apiKey, weather_cache, locationCache, started,
                       agg, response>>
        /\ UNCHANGED pureVars

\* ------------------------------------------------------------------ clock
\* The clock is read in steps of one minute or of one cache TTL. Every
\* provider request is made with timeout 10000, so a call never lasts a
\* whole step of the clock: the clock advances between calls.
TickSteps == {TickMs, CacheTtlMinutes * TickMs}

Tick ==
    /\ ticks < MaxTicks
    /\ \A s \in Slots : ~InFlight(calls[s])
    /\ \E d \in TickSteps : now' = now + d
    /\ ticks' = ticks + 1
    /\ UNCHANGED <<apiKey, circuitBreaker, weather_cache, locationCache,
                   query_logs, calls, started, streak>>
    /\ UNCHANGED aggVars
    /\ UNCHANGED pureVars

\* ---------------------------------------------------------- initial states
\* The state an adapter is in at StartTime after a history of calls that
\* all settled at once: if cached, one getCurrentWeather("London") answered
\* by the provider; then k calls getCurrentWeather("Leeds") that failed
\* (for AccuWeather in the location search, for the others in the request).
WarmBreaker(k) ==
    [failures |-> k,
     lastFailureTime |-> IF k = 0 THEN 0 ELSE StartTime,
     state |-> IF k >= FailureThreshold THEN "OPEN" ELSE "CLOSED"]

WarmRow(loc, cached) ==
    IF cached /\ loc = "London"
    THEN [present |-> TRUE, expiresAt |-> ExpiresAt(StartTime, CacheTtlMinutes), valid |-> TRUE]
    ELSE NoRow

RECURSIVE Repeat(_, _)
Repeat(q, n) == IF n = 0 THEN <<>> ELSE q \o Repeat(q, n - 1)

WarmLog(p, cached, k) ==
    (IF cached
     THEN (IF p = "AccuWeather"
           THEN <<LogEntry(p, "London", "location_search", 0, "success", FALSE)>> ELSE <<>>)
          \o <<LogEntry(p, "London", "request", 0, "success", FALSE)>>
     ELSE <<>>)
    \o Repeat((IF p = "AccuWeather"
               THEN <<LogEntry(p, "Leeds", "location_search_error", 0, "error", TRUE)>> ELSE <<>>)
              \o <<LogEntry(p, "Leeds", "error", 0, "error", TRUE)>>, k)

NoRequest ==
    /\ now = StartTime
    /\ ticks = 0
    /\ calls = [s \in Slots |-> NoCall]
    /\ started = 0
    /\ agg = [pc |-> "idle", location |-> "none", handler |-> "none"]
    /\ results = <<>>
    /\ errors = <<>>
    /\ response = NoResponse

NoComparing ==
    /\ weatherObjects = <<>>
    /\ comparison = NoComparison
    /\ metrics = NoMetrics

NoReporting ==
    /\ logs = <<>>
    /\ report = NoReport

NoNormalizing ==
    /\ payload = NoPayload
    /\ normalized = <<>>

NoReq == [endpoint |-> "none", location |-> <<>>, source |-> "none"]
NoRes == [status |-> 0, invoked |-> {}]

NoRouting ==
    /\ request = NoReq
    /\ reply = NoRes

NoForecastCall == [provider |-> "none", days |-> 0, start |-> 0, coldest |-> 0, spread |-> 0]

NoForecasting ==
    /\ forecastCall = NoForecastCall
    /\ forecast = <<>>

NoMerged == [null |-> TRUE, location |-> [name |-> "none", lat |-> 0, lon |-> 0],
             sources |-> <<>>]

NoMerging == merged = NoMerged

MaxLogCalls == 3
LogCallers == 1..MaxLogCalls

\* no row for (api_name, date)
NoMetricsRow == [present |-> FALSE, total_requests |-> 0,
                 successful_requests |-> 0, failed_requests |-> 0]

NoMetricCall == [pc |-> "idle", success |-> FALSE, row |-> NoMetricsRow]

NoMetering ==
    /\ api_metrics = NoMetricsRow
    /\ logged = 0
    /\ metricCalls = [w \in LogCallers |-> NoMetricCall]

NoExt ==
    /\ NoRouting
    /\ NoForecasting
    /\ NoMerging
    /\ NoMetering

Idle ==
    /\ NoRequest
    /\ NoComparing
    /\ NoReporting
    /\ NoNormalizing
    /\ NoExt

\* OpenWeatherService and WeatherApiService have the same getCurrentWeather
\* and getForecast up to the names of their parameters; AccuWeatherService
\* adds the location search
Adapters == {"OpenWeatherMap", "AccuWeather"}

\* one adapter is configured; it is as constructed (cached false, k 0) or has
\* a history
Init ==
    /\ Idle
    /\ \E p0 \in Adapters, cached \in BOOLEAN, k \in {0, FailureThreshold - 1, FailureThreshold} :
          /\ apiKey = [p \in Providers |-> p = p0]
          /\ circuitBreaker = [p \in Providers |-> IF p = p0 THEN WarmBreaker(k) ELSE NewBreaker]
          /\ weather_cache = [key \in Locations \X Providers |->
                                 IF key[2] = p0 THEN WarmRow(key[1], cached) ELSE NoRow]
          /\ locationCache = IF cached /\ p0 = "AccuWeather"
                             THEN [EmptyLocationCache EXCEPT !["London"] = "328328"]
                             ELSE EmptyLocationCache
          /\ query_logs = WarmLog(p0, cached, k)
          /\ streak = [p \in Providers |-> IF p = p0 THEN k ELSE 0]

AnswerKinds == {"ok", "invalid", "malformed", "fail"}

\* a step of a getCurrentWeather call, with every kind of answer
CallStep ==
    \/ \E s \in Slots : CacheRead(s)
    \/ \E s \in Slots, found \in BOOLEAN : LocationAnswers(s, found)
    \/ \E s \in Slots, o \in AnswerKinds, w \in BOOLEAN : ProviderAnswers(s, o, w)
    \/ \E s \in Slots : CacheWritten(s)

\* single-source requests over time; the provider answers or fails
Next ==
    \/ \E p \in Providers, loc \in Locations : SingleCurrent(p, loc)
    \/ \E p \in Providers, loc \in Locations : SingleForecast(p, loc)
    \/ \E s \in Slots : CacheRead(s)
    \/ \E s \in Slots, found \in BOOLEAN : LocationAnswers(s, found)
    \/ \E s \in Slots, o \in {"ok", "fail"} : ProviderAnswers(s, o, TRUE)
    \/ \E s \in Slots : CacheWritten(s)
    \/ \E s \in Slots, o \in {"ok", "fail"} : ForecastAnswers(s, o)
    \/ Tick

Spec == Init /\ [][Next]_vars

\* ------------------------------------------------------------ aggregation
NotAvailable == "Service not available (API key not configured)"

\* a race: the first promise to settle ends the wait
AnySettled(tasks) == \E i \in AggSlots : Settled(tasks[i])

\* Promise.allSettled resolves once every promise has settled
AllSettled(tasks) == \A i \in AggSlots : Settled(tasks[i])

\* compareCurrentWeather / getAllCurrentWeather, up to the await of the
\* fan-out: services.map runs each callback up to its first await. A
\* provider without key is recorded at once; a call rejected by its breaker
\* is recorded when the callback's catch runs, after the map has returned.
StartAggregation(handler, loc) ==
    /\ agg.pc = "idle"
    /\ LET e == [i \in AggSlots |-> EnterCurrent(Services[i], loc, "agg")]
           skipped(i) == ~apiKey[Services[i]]
           task(i) == IF skipped(i)
                      THEN [NoCall EXCEPT !.pc = "skipped", !.svc = Services[i], !.loc = loc,
                                          !.op = "current", !.owner = "agg", !.seen = "nokey",
                                          !.err = NotAvailable]
                      ELSE e[i].call
           unavailable(i) == IF skipped(i)
                             THEN <<[source |-> Services[i], error |-> NotAvailable]>> ELSE <<>>
           rejected(i) == IF ~skipped(i) /\ e[i].call.pc = "thrown"
                          THEN <<[source |-> Services[i], error |-> e[i].call.err]>> ELSE <<>>
       IN  /\ calls' = [s \in Slots |-> IF s \in AggSlots THEN task(s) ELSE calls[s]]
           /\ circuitBreaker' = [p \in Providers |->
                  LET i == CHOOSE j \in AggSlots : Services[j] = p
                  IN  IF skipped(i) THEN circuitBreaker[p] ELSE e[i].cb]
           /\ streak' = [p \in Providers |->
                  LET i == CHOOSE j \in AggSlots : Services[j] = p
                  IN  IF task(i).pc = "thrown" THEN streak[p] + 1 ELSE streak[p]]
           /\ errors' = unavailable(1) \o unavailable(2) \o unavailable(3)
                        \o rejected(1) \o rejected(2) \o rejected(3)
    /\ results' = <<>>
    /\ agg' = [pc |-> "waiting", location |-> loc, handler |-> handler]
    /\ response' = NoResponse
    /\ UNCHANGED <<now, ticks, apiKey, weather_cache, locationCache, query_logs, started>>
    /\ UNCHANGED pureVars

\* a handler that gives up as soon as one provider failed
Answer_AnyError(res, errs) ==
    IF Len(res) = 0 \/ Len(errs) > 0
    THEN [status |-> 503, success |-> FALSE, hasErrors |-> TRUE,
          successful |-> 0, failed |-> Len(errs)]
    ELSE [status |-> 200, success |-> TRUE, hasErrors |-> Len(errs) > 0,
          successful |-> Len(res), failed |-> Len(errs)]

\* the handler after the fan-out: 503 without a success, else 200
Answer(res, errs) ==
    IF Len(res) = 0
    THEN [status |-> 503, success |-> FALSE, hasErrors |-> TRUE,
          successful |-> 0, failed |-> Len(errs)]
    ELSE [status |-> 200, success |-> TRUE, hasErrors |-> Len(errs) > 0,
          successful |-> Len(res), failed |-> Len(errs)]

\* the record a provider answers with for London, from the network or from
\* the cache: the providers differ in temperature, condition and coordinates
ProviderRecord(p) ==
    IF p = "OpenWeatherMap"
    THEN [temperature |-> Num(1200), humidity |-> Num(6500), pressure |-> Num(101300),
          windSpeed |-> Num(550), main |-> "Clear"]
    ELSE IF p = "WeatherAPI"
    THEN [temperature |-> Num(1300), humidity |-> Num(6500), pressure |-> Num(101300),
          windSpeed |-> Num(550), main |-> "Rain"]
    ELSE [temperature |-> Num(1400), humidity |-> Num(6500), pressure |-> Num(101300),
          windSpeed |-> Num(550), main |-> "Clouds"]

ProviderLocation(p) ==
    IF p = "OpenWeatherMap" THEN [name |-> "London", lat |-> 5151, lon |-> -13]
    ELSE IF p = "WeatherAPI" THEN [name |-> "London", lat |-> 5152, lon |-> -11]
    ELSE [name |-> "London", lat |-> 5150, lon |-> -12]

\* Weather.mergeSources: the location is the one of the first element
mergeSources(weatherArray) ==
    IF Len(weatherArray) = 0 THEN NoMerged
    ELSE [null |-> FALSE,
          location |-> ProviderLocation(weatherArray[1]),
          sources |-> weatherArray]

\* the sequences results can be: the providers that succeeded, in any order
ResultOrders ==
    {q \in UNION {[1..n -> Providers] : n \in 0..Len(Services)} :
        \A i, j \in 1..Len(q) : i # j => q[i] # q[j]}

\* results.map(r => new Weather(r.data)), for each of these sequences
WeatherObjectsOf ==
    [q \in ResultOrders |-> [i \in 1..Len(q) |-> ProviderRecord(q[i])]] @@ <<>>

\* performDetailedComparison and calculateAccuracyMetrics on each of them,
\* as tables that are computed once (@@ makes the function explicit)
ComparisonOf ==
    [q \in ResultOrders |->
        performDetailedComparison([i \in 1..Len(q) |-> ProviderRecord(q[i])])] @@ <<>>
AccuracyOf ==
    [q \in ResultOrders |->
        calculateAccuracyMetrics([i \in 1..Len(q) |-> ProviderRecord(q[i])])] @@ <<>>

\* the handler's continuation after Promise.allSettled: the answer is made
\* of results, read in the order of insertion
Respond ==
    /\ agg.pc = "waiting"
    /\ AllSettled(calls)
    /\ response' = Answer(results, errors)
    /\ agg' = [agg EXCEPT !.pc = "responded"]
    /\ IF Len(results) = 0
       THEN UNCHANGED <<cmpVars, mergeVars>>
       ELSE /\ weatherObjects' = WeatherObjectsOf[results]
            /\ IF agg.handler = "compare"
               THEN /\ comparison' = ComparisonOf[results]
                    /\ metrics' = AccuracyOf[results]
                    /\ UNCHANGED merged
               ELSE /\ merged' = mergeSources(results)
                    /\ UNCHANGED <<comparison, metrics>>
    /\ UNCHANGED svcVars
    /\ UNCHANGED <<results, errors>>
    /\ UNCHANGED <<statVars, normVars, routeVars, forecastVars, metricVars>>

\* every adapter has its own history: no key, or a key and either no history,
\* a cached record for London or an open breaker
Histories == {"nokey", "plain", "cached", "open"}

InitAgg ==
    /\ \E h \in [Providers -> Histories] :
          LET cached(p) == h[p] = "cached"
              k(p) == IF h[p] = "open" THEN FailureThreshold ELSE 0
          IN  /\ apiKey = [p \in Providers |-> h[p] # "nokey"]
              /\ circuitBreaker = [p \in Providers |-> WarmBreaker(k(p))]
              /\ weather_cache = [key \in Locations \X Providers |->
                                     WarmRow(key[1], cached(key[2]))]
              /\ locationCache = IF cached("AccuWeather")
                                 THEN [EmptyLocationCache EXCEPT !["London"] = "328328"]
                                 ELSE EmptyLocationCache
              /\ query_logs = WarmLog(Services[1], cached(Services[1]), k(Services[1]))
                              \o WarmLog(Services[2], cached(Services[2]), k(Services[2]))
                              \o WarmLog(Services[3], cached(Services[3]), k(Services[3]))
              /\ streak = [p \in Providers |-> k(p)]
    /\ Idle

\* one aggregation request for London, at StartTime
NextAgg ==
    \/ \E h \in {"compare", "all"} : StartAggregation(h, "London")
    \/ CallStep
    \/ Respond

SpecAgg == InitAgg /\ [][NextAgg]_vars

\* every provider call settles (each request has a timeout) and the event
\* loop runs the handler's continuation
FairSpecAgg == SpecAgg /\ WF_vars(CallStep) /\ WF_vars(Respond)

\* ------------------------------------------------- comparator, the inputs
\* the services as constructed, without any request
Constructed ==
    /\ apiKey = [p \in Providers |-> FALSE]
    /\ circuitBreaker = [p \in Providers |-> NewBreaker]
    /\ weather_cache = [key \in Locations \X Providers |-> NoRow]
    /\ locationCache = EmptyLocationCache
    /\ query_logs = <<>>
    /\ streak = [p \in Providers |-> 0]

\* values a provider reports, in hundredths: 0, 10, 12, 12.25, 12.49, 12.5, 13, 14
Numbers == {0, 1000, 1200, 1225, 1249, 1250, 1300, 1400}

\* a temperature below zero: -5 C
Frost == {-500}

\* Every adapter rounds the celsius value with Math.round, and a record in
\* results passed Weather.isValid: its celsius value is a whole number.
\* Every other field is taken from the payload as it is and may be missing.
RawValues(metric) ==
    IF metric = "temperature"
    THEN {Num(x) : x \in {y \in Numbers \cup Frost : y % 100 = 0}}
    ELSE {Num(x) : x \in Numbers} \cup {Null}

Conditions == {"Clear", "Rain", "Clouds"}

\* 12 C, 65 %, 1013 hPa, 5.5 mph
Typical == [temperature |-> Num(1200), humidity |-> Num(6500),
            pressure |-> Num(101300), windSpeed |-> Num(550), main |-> "Clear"]

\* one to three records (one per provider that succeeded) that differ in one
\* metric and in the weather condition
InitCompare ==
    /\ NoRequest
    /\ NoExt
    /\ Constructed
    /\ \E metric \in MetricNames, n \in 1..Len(Services) :
          \E raw \in [1..n -> RawValues(metric)], main \in [1..n -> Conditions] :
              weatherObjects = [i \in 1..n |->
                  [Typical EXCEPT ![metric] = raw[i], !["main"] = main[i]]]
    /\ comparison = NoComparison
    /\ metrics = NoMetrics
    /\ NoReporting
    /\ NoNormalizing

\* compareCurrentWeather after the fan-out: the comparison and the accuracy
\* metrics of the records in results
CompareResults ==
    /\ comparison.null /\ metrics.null
    /\ comparison' = performDetailedComparison(weatherObjects)
    /\ metrics' = calculateAccuracyMetrics(weatherObjects)
    /\ UNCHANGED weatherObjects
    /\ UNCHANGED <<statVars, normVars, extVars>>
    /\ UNCHANGED svcVars
    /\ UNCHANGED aggVars

NextCompare == CompareResults

SpecCompare == InitCompare /\ [][NextCompare]_vars

\* ------------------------------------------------- statistics, the inputs
MaxLogs == 3             \* log rows handed to a statistics function

\* response times: 0 is a cache hit
Latencies == {0, 500, 600, 1000}

LogRows ==
    [apiName : {"OpenWeatherMap", "WeatherAPI"}, responseTime : Latencies,
     status : {"success", "error"}, date : {"2026-11-04", "2026-11-05"}]

InitStats ==
    /\ NoRequest
    /\ NoExt
    /\ Constructed
    /\ NoComparing
    /\ NoNormalizing
    /\ \E n \in 0..MaxLogs : \E q \in [1..n -> LogRows] : logs = q
    /\ report = NoReport

\* QueryLog.calculateStats(logs)
CalculateStats ==
    /\ report.of = "none"
    /\ report' = [NoReport EXCEPT !.of = "calculateStats", !.stats = calculateStats(logs)]
    /\ UNCHANGED <<logs, cmpVars, normVars, extVars>>
    /\ UNCHANGED svcVars
    /\ UNCHANGED aggVars

\* QueryLog.calculateApiBreakdown(logs)
CalculateApiBreakdown ==
    /\ report.of = "none"
    /\ report' = [NoReport EXCEPT !.of = "calculateApiBreakdown",
                                  !.groups = calculateApiBreakdown(logs)]
    /\ UNCHANGED <<logs, cmpVars, normVars, extVars>>
    /\ UNCHANGED svcVars
    /\ UNCHANGED aggVars

\* ComparisonController.getAccuracyHistory on the rows getQueryLogs returned
GetAccuracyHistory ==
    /\ report.of = "none"
    /\ report' = [NoReport EXCEPT !.of = "getAccuracyHistory",
                                  !.groups = AccuracyTotals(logs),
                                  !.daily = AccuracyDaily(logs)]
    /\ UNCHANGED <<logs, cmpVars, normVars, extVars>>
    /\ UNCHANGED svcVars
    /\ UNCHANGED aggVars

\* LoggerService.getQueryStats on the rows getQueryLogs returned
GetQueryStats ==
    /\ report.of = "none"
    /\ report' = [NoReport EXCEPT !.of = "getQueryStats",
                                  !.query = getQueryStats(logs),
                                  !.groups = QueryApiBreakdown(logs),
                                  !.daily = QueryDailyBreakdown(logs)]
    /\ UNCHANGED <<logs, cmpVars, normVars, extVars>>
    /\ UNCHANGED svcVars
    /\ UNCHANGED aggVars

NextStats ==
    \/ CalculateStats
    \/ CalculateApiBreakdown
    \/ GetAccuracyHistory
    \/ GetQueryStats

SpecStats == InitStats /\ [][NextStats]_vars

\* ---------------------------------------------- normalization, the inputs
\* transformCurrentWeatherData of the three adapters on a payload with a
\* temperature, a humidity, a wind speed (m/s for OpenWeatherMap, mph for
\* the others), an observation time and the optional fields UV index and
\* gust; t is the clock at the call.
\*   uv    OpenWeatherMap: null; WeatherAPI: current.uv; AccuWeather: data.UVIndex
\*   gust  OpenWeatherMap: data.wind.gust ? {...} : null; WeatherAPI: the
\*         value of gust_mph inside an object; AccuWeather: not set
transformCurrentWeatherData(data, t) ==
    [source |-> data.provider,
     celsius |-> 100 * RoundDiv(data.temp, 100),
     humidity |-> data.humidity,
     mph |-> IF data.provider = "OpenWeatherMap"
             THEN RoundDiv(data.wind * 2237, 1000)
             ELSE data.wind,
     uv |-> IF data.provider = "OpenWeatherMap" THEN Null ELSE data.uv,
     gust |-> IF data.provider = "OpenWeatherMap" THEN OrNull(data.gust)
              ELSE IF data.provider = "WeatherAPI" THEN data.gust
              ELSE Null,
     timestamp |-> IF data.provider = "WeatherAPI"
                   THEN ToISOString(t)
                   ELSE ToISOString(data.observed)]

\* payloads: temperatures 11.6 and 12.4, wind speeds 2.5 and 5.5, observed
\* at the start of the clock or one minute before
Payloads ==
    [provider : Providers, temp : {1160, 1240}, humidity : {65 * 100},
     wind : {250, 550}, observed : {StartTime - TickMs, StartTime},
     uv : {Null, Num(0), Num(300)}, gust : {Null, Num(0), Num(800)}]

\* the optional fields an adapter reads from its payload
OptionalFields(provider) ==
    IF provider = "OpenWeatherMap" THEN {"gust"}
    ELSE IF provider = "WeatherAPI" THEN {"uv", "gust"}
    ELSE {"uv"}

\* Weather.getStandardizedCurrent on the optional fields: current.uv || null
\* and current.wind?.gust || null; the gust object of WeatherAPI is truthy
\* whatever the value inside
StandardizedOptional(record) ==
    [uv |-> OrNull(record.uv),
     gust |-> IF record.source = "WeatherAPI" THEN record.gust ELSE OrNull(record.gust)]

InitNormalize ==
    /\ NoRequest
    /\ NoExt
    /\ Constructed
    /\ NoComparing
    /\ NoReporting
    /\ payload \in Payloads
    /\ normalized = <<>>

\* the adapter normalizes the payload once more, and the record is standardized
Normalize ==
    /\ Len(normalized) < 2
    /\ normalized' = Append(normalized,
           [at |-> now, record |-> transformCurrentWeatherData(payload, now),
            standardized |-> StandardizedOptional(transformCurrentWeatherData(payload, now))])
    /\ UNCHANGED <<payload, cmpVars, statVars, extVars>>
    /\ UNCHANGED svcVars
    /\ UNCHANGED aggVars

NextNormalize ==
    \/ Normalize
    \/ Tick

SpecNormalize == InitNormalize /\ [][NextNormalize]_vars

\* ------------------------------------------------ routes and validation
\* A location is a sequence of characters.
MinLength == 2
MaxLength == 100

Chars == {" ", "a", "!"}

\* String.prototype.trim: from the first to the last character that is no space
trim(str) ==
    LET inked == {i \in 1..Len(str) : str[i] # " "}
    IN  IF inked = {} THEN <<>>
        ELSE SubSeq(str, CHOOSE i \in inked : \A j \in inked : i <= j,
                         CHOOSE i \in inked : \A j \in inked : i >= j)

\* cleaned.replace(/\s+/g, ' '): runs of whitespace become one space
collapseSpaces(str) ==
    LET kept == {i \in 1..Len(str) : i = 1 \/ str[i] # " " \/ str[i - 1] # " "}
    IN  [k \in 1..Cardinality(kept) |->
            str[CHOOSE i \in kept : Cardinality({j \in kept : j <= i}) = k]]

SingleEndpoints == {"/api/weather/current", "/api/weather/forecast", "/api/weather/all"}
CompareEndpoints == {"/api/compare/current", "/api/compare/forecast"}
Endpoints == SingleEndpoints \cup CompareEndpoints

\* the validators declared on the route for param('location'): notEmpty and
\* isLength({min: 2, max: 100}) on every route, matches(/^[a-zA-Z0-9\s,.-]+$/)
\* on the routes of WeatherController; the result is the set of messages
\* the validators leave in the request
locationValidation(endpoint, location) ==
    (IF location = <<>> THEN {"Location is required"} ELSE {})
    \cup (IF Len(location) < MinLength \/ Len(location) > MaxLength
          THEN {"Location must be between 2 and 100 characters"} ELSE {})
    \cup (IF endpoint \in SingleEndpoints /\ \E i \in 1..Len(location) : location[i] = "!"
          THEN {"Location contains invalid characters"} ELSE {})

\* WeatherController.cleanLocation: <<>> stands for the thrown Error; the
\* strings here hold no postcode
cleanLocation(location) ==
    IF location = <<>> THEN <<>>
    ELSE LET collapsed == collapseSpaces(trim(location))
             cleaned == IF Len(collapsed) > MaxLength
                        THEN SubSeq(collapsed, 1, MaxLength) ELSE collapsed
         IN  IF Len(cleaned) < MinLength THEN <<>> ELSE cleaned

\* the providers a handler calls: the selected one, or every available one
Invoked(r) ==
    IF r.endpoint \in {"/api/weather/current", "/api/weather/forecast"}
    THEN {r.source}
    ELSE {p \in Providers : apiKey[p]}

\* WeatherController.getCurrentWeather, getForecast, getAllCurrentWeather:
\* validationResult(req) is checked first, then cleanLocation
WeatherControllerHandler(r) ==
    IF locationValidation(r.endpoint, r.location) # {}
    THEN [status |-> 400, invoked |-> {}]
    ELSE IF cleanLocation(r.location) = <<>>
    THEN [status |-> 500, invoked |-> {}]
    ELSE IF r.endpoint # "/api/weather/all" /\ ~apiKey[r.source]
    THEN [status |-> 503, invoked |-> {}]
    ELSE [status |-> 200, invoked |-> Invoked(r)]

\* ComparisonController.compareCurrentWeather, compareForecast: the result
\* of the validators is not read; only an empty trimmed location is refused
ComparisonControllerHandler(r) ==
    IF trim(r.location) = <<>>
    THEN [status |-> 400, invoked |-> {}]
    ELSE [status |-> 200, invoked |-> Invoked(r)]

\* param strings: every string of one to three characters, and strings of
\* MaxLength and MaxLength + 1 characters; Express does not route an empty
\* path segment to these handlers
ParamStrings ==
    UNION {[1..n -> Chars] : n \in 1..3}
    \cup {[i \in 1..MaxLength |-> "a"], [i \in 1..(MaxLength + 1) |-> "a"]}

Requests == [endpoint : Endpoints, location : ParamStrings, source : Providers]

InitRoute ==
    /\ NoRequest
    /\ NoComparing
    /\ NoReporting
    /\ NoNormalizing
    /\ \E off \in Providers \cup {"none"} : apiKey = [p \in Providers |-> p # off]
    /\ circuitBreaker = [p \in Providers |-> NewBreaker]
    /\ weather_cache = [key \in Locations \X Providers |-> NoRow]
    /\ locationCache = EmptyLocationCache
    /\ query_logs = <<>>
    /\ streak = [p \in Providers |-> 0]
    /\ request \in Requests
    /\ reply = NoRes
    /\ NoForecasting
    /\ NoMerging
    /\ NoMetering

\* a request to a route of WeatherController is handled
HandleWeather ==
    /\ reply = NoRes
    /\ request.endpoint \in SingleEndpoints
    /\ reply' = WeatherControllerHandler(request)
    /\ UNCHANGED <<request, cmpVars, statVars, normVars, forecastVars, mergeVars, metricVars>>
    /\ UNCHANGED svcVars
    /\ UNCHANGED aggVars

\* a request to a route of ComparisonController is handled
HandleComparison ==
    /\ reply = NoRes
    /\ request.endpoint \in CompareEndpoints
    /\ reply' = ComparisonControllerHandler(request)
    /\ UNCHANGED <<request, cmpVars, statVars, normVars, forecastVars, mergeVars, metricVars>>
    /\ UNCHANGED svcVars
    /\ UNCHANGED aggVars

NextRoute ==
    \/ HandleWeather
    \/ HandleComparison

SpecRoute == InitRoute /\ [][NextRoute]_vars

\* ------------------------------------------------------------ forecasts
\* A date is a day number, a time of day one of the eight 3-hour slots of
\* the OpenWeatherMap forecast; temperatures are in hundredths of a degree.
ItemsPerDay == 8
AccuWeatherDays == 5
WeatherApiMaxDays == 10
MaxForecastDays == 5

\* Math.round on a value in hundredths
Round(x) == 100 * RoundDiv(x, 100)

\* what OpenWeatherMap answers to cnt: cnt items, 3 hours apart, the first
\* one in slot start of day 0
OpenWeatherList(cnt, start, coldest, spread) ==
    [k \in 1..cnt |->
        LET slot == start + k - 1
        IN  [date |-> slot \div ItemsPerDay,
             temp_min |-> coldest + 150 * (slot % 3),
             temp_max |-> coldest + 150 * (slot % 3) + spread]]

\* what the daily endpoints answer: n days from day 0 on
DailyList(n, coldest, spread) ==
    [k \in 1..n |-> [date |-> k - 1,
                     temp_min |-> coldest + 150 * (k % 2),
                     temp_max |-> coldest + 150 * (k % 2) + spread]]

\* the keys of dailyForecasts
ForecastDates(list) == {list[i].date : i \in 1..Len(list)}

\* the item that created the key d
FirstItem(list, d) ==
    CHOOSE i \in 1..Len(list) : list[i].date = d /\ \A j \in 1..(i - 1) : list[j].date # d

\* OpenWeatherService.transformForecastData: the items are grouped by UTC
\* date; Object.values gives the groups in the order their keys were made
OpenWeather_transformForecastData(list) ==
    [k \in 1..Cardinality(ForecastDates(list)) |->
        LET d == CHOOSE e \in ForecastDates(list) :
                     Cardinality({f \in ForecastDates(list) :
                                     FirstItem(list, f) <= FirstItem(list, e)}) = k
            mins == {Round(list[i].temp_min) : i \in {j \in 1..Len(list) : list[j].date = d}}
            maxs == {Round(list[i].temp_max) : i \in {j \in 1..Len(list) : list[j].date = d}}
        IN  [date |-> d,
             min |-> CHOOSE x \in mins : \A y \in mins : x <= y,
             max |-> CHOOSE x \in maxs : \A y \in maxs : x >= y]]

\* AccuWeatherService.transformForecastData and
\* WeatherApiService.transformForecastData: one entry per day of the answer
Daily_transformForecastData(list) ==
    [k \in 1..Len(list) |-> [date |-> list[k].date,
                             min |-> Round(list[k].temp_min),
                             max |-> Round(list[k].temp_max)]]

\* service.getForecast(location, days) on an answering provider:
\*   OpenWeatherMap asks for cnt = days * 8 items
\*   WeatherAPI asks for Math.min(days, 10) days
\*   AccuWeather asks the 5-day endpoint, whatever days is
getForecast(c) ==
    IF c.provider = "OpenWeatherMap"
    THEN OpenWeather_transformForecastData(
             OpenWeatherList(c.days * ItemsPerDay, c.start, c.coldest, c.spread))
    ELSE IF c.provider = "WeatherAPI"
    THEN Daily_transformForecastData(
             DailyList(IF c.days < WeatherApiMaxDays THEN c.days ELSE WeatherApiMaxDays,
                       c.coldest, c.spread))
    ELSE Daily_transformForecastData(DailyList(AccuWeatherDays, c.coldest, c.spread))

ForecastCalls ==
    [provider : Providers, days : 1..MaxForecastDays, start : 0..(ItemsPerDay - 1),
     coldest : {-360, 1240}, spread : {0, 120}]

InitForecast ==
    /\ NoRequest
    /\ Constructed
    /\ NoComparing
    /\ NoReporting
    /\ NoNormalizing
    /\ NoRouting
    /\ NoMerging
    /\ NoMetering
    /\ forecastCall \in ForecastCalls
    /\ forecast = <<>>

\* the call returns its forecast
GetForecast ==
    /\ forecast = <<>>
    /\ forecast' = getForecast(forecastCall)
    /\ UNCHANGED <<forecastCall, cmpVars, statVars, normVars, routeVars, mergeVars, metricVars>>
    /\ UNCHANGED svcVars
    /\ UNCHANGED aggVars

NextForecast == GetForecast

SpecForecast == InitForecast /\ [][NextForecast]_vars

\* ------------------------------------------------------------ api_metrics
\* LoggerService.logQuery for one API name on one day. The response times
\* (avg, min, max) of the row are left out: they do not enter the counts.

\* the row after one call that succeeded and one that failed
WarmMetricsRow == [present |-> TRUE, total_requests |-> 2,
                   successful_requests |-> 1, failed_requests |-> 1]

InitMetrics ==
    /\ NoRequest
    /\ Constructed
    /\ NoComparing
    /\ NoReporting
    /\ NoNormalizing
    /\ NoRouting
    /\ NoForecasting
    /\ NoMerging
    /\ api_metrics \in {NoMetricsRow, WarmMetricsRow}
    /\ logged = api_metrics.total_requests
    /\ metricCalls = [w \in LogCallers |-> NoMetricCall]

MetricsUnchanged ==
    /\ UNCHANGED <<cmpVars, statVars, normVars, routeVars, forecastVars, mergeVars>>
    /\ UNCHANGED svcVars
    /\ UNCHANGED aggVars

\* logQuery, up to the SELECT of updateApiMetrics: database.logQuery has
\* inserted the row of query_logs, the line is in the log file
LogQuery(w, success) ==
    /\ metricCalls[w].pc = "idle"
    /\ logged' = logged + 1
    /\ metricCalls' = [metricCalls EXCEPT ![w] = [@ EXCEPT !.pc = "select", !.success = success]]
    /\ UNCHANGED api_metrics
    /\ MetricsUnchanged

\* the callback of db.get runs with the row the SELECT found
SelectRow(w) ==
    /\ metricCalls[w].pc = "select"
    /\ metricCalls' = [metricCalls EXCEPT ![w] = [@ EXCEPT !.pc = "write", !.row = api_metrics]]
    /\ UNCHANGED <<api_metrics, logged>>
    /\ MetricsUnchanged

\* the UPDATE or the INSERT runs: the UPDATE writes the counts computed from
\* the row that was read; the INSERT fails on UNIQUE(api_name, date) when a
\* row exists, and logQuery's catch swallows the error
WriteRow(w) ==
    LET c == metricCalls[w]
        ok == IF c.success THEN 1 ELSE 0
    IN  /\ c.pc = "write"
        /\ IF c.row.present
           THEN /\ api_metrics' =
                       [present |-> TRUE,
                        total_requests |-> c.row.total_requests + 1,
                        successful_requests |-> c.row.successful_requests + ok,
                        failed_requests |-> c.row.failed_requests + (1 - ok)]
                /\ metricCalls' = [metricCalls EXCEPT ![w] = [@ EXCEPT !.pc = "done"]]
           ELSE IF api_metrics.present
           THEN /\ api_metrics' = api_metrics
                /\ metricCalls' = [metricCalls EXCEPT ![w] = [@ EXCEPT !.pc = "failed"]]
           ELSE /\ api_metrics' =
                       [present |-> TRUE, total_requests |-> 1,
                        successful_requests |-> ok, failed_requests |-> 1 - ok]
                /\ metricCalls' = [metricCalls EXCEPT ![w] = [@ EXCEPT !.pc = "done"]]
        /\ UNCHANGED logged
        /\ MetricsUnchanged

NextMetrics ==
    \/ \E w \in LogCallers, success \in BOOLEAN : LogQuery(w, success)
    \/ \E w \in LogCallers : SelectRow(w)
    \/ \E w \in LogCallers : WriteRow(w)

SpecMetrics == InitMetrics /\ [][NextMetrics]_vars

\* ================================================================ claims
Sources(errs) == {errs[i].source : i \in 1..Len(errs)}
Members(res) == {res[i] : i \in 1..Len(res)}
Occurrences(p) ==
    Cardinality({i \in 1..Len(results) : results[i] = p})
    + Cardinality({i \in 1..Len(errors) : errors[i].source = p})

\* a single-source request started a service call in this step
Started(s) == started' = started + 1 /\ s \in DirectSlots /\ calls'[s].pc # "idle"
                 /\ (Settled(calls'[s]) \/ calls'[s] # calls[s])

\* C1: when the fan-out has finished, each of the three providers is in
\* exactly one of results and errors; a provider whose call threw (or that has
\* no key) is in errors, a provider whose call returned a valid record is in
\* results, and the handler answers 200 or 503, it never throws.
C1_PartialFailure ==
    (agg.pc # "idle" /\ (\A i \in AggSlots : calls[i].pc \in {"returned", "thrown", "skipped"})) =>
        /\ \A p \in Providers : Occurrences(p) = 1
        /\ \A i \in AggSlots :
              /\ calls[i].pc \in {"thrown", "skipped"} => Services[i] \in Sources(errors)
              /\ (calls[i].pc = "returned" /\ calls[i].valid) => Services[i] \in Members(results)
        /\ agg.pc = "responded" => response.status \in {200, 503}

\* providers 1 and 3 succeeded, provider 2 threw, and the handler answered
C1_Witness ==
    /\ agg.pc = "responded"
    /\ calls[2].pc = "thrown" /\ calls[2].err = "fail"
    /\ results = <<Services[3], Services[1]>>
    /\ Sources(errors) = {Services[2]}
    /\ response.status = 200

\* C2: the handler answers 503 iff no provider call returned a valid record
\* (the success map is empty); otherwise it answers 200 with success true,
\* and the errors are part of the answer iff at least one provider failed.
C2_ServiceUnavailable ==
    agg.pc = "responded" =>
        /\ response.status = 503 <=> Len(results) = 0
        /\ response.status = 503 <=>
              \A i \in AggSlots : ~(calls[i].pc = "returned" /\ calls[i].valid)
        /\ response.status # 503 => response.status = 200 /\ response.success
        /\ response.hasErrors <=> Len(errors) > 0
        /\ response.successful = Len(results) /\ response.failed = Len(errors)

\* one provider succeeded, two failed: 200 with the errors included
C2_Witness ==
    /\ agg.pc = "responded"
    /\ response.status = 200 /\ response.success /\ response.hasErrors
    /\ Len(results) = 1 /\ Len(errors) = 2

\* C3: the answer is sent only when all three provider calls have settled,
\* and once the fan-out is started the answer is eventually sent.
C3_WaitsForAll ==
    /\ [](agg.pc = "responded" => (\A i \in AggSlots : calls[i].pc \in {"returned", "thrown", "skipped"}))
    /\ [][agg.pc = "waiting" /\ agg'.pc = "responded" => (\A i \in AggSlots : calls[i].pc \in {"returned", "thrown", "skipped"})]_vars
    /\ (agg.pc = "waiting") ~> (agg.pc = "responded")

\* one call has failed, one has succeeded, and the handler still waits for the third
C3_Witness ==
    /\ agg.pc = "waiting"
    /\ \E i, j, k \in AggSlots :
          /\ calls[i].pc = "thrown" /\ calls[j].pc = "returned" /\ InFlight(calls[k])

\* C4: a CLOSED breaker becomes OPEN exactly when 5 getCurrentWeather calls
\* in a row have failed, with no call that returned in between; the next
\* call within 60 s is rejected without a request.
C4_OpensAfterFiveConsecutive ==
    [][\A p \in Providers :
          /\ (circuitBreaker[p].state = "CLOSED" /\ circuitBreaker'[p].state = "OPEN")
                => streak'[p] >= FailureThreshold
          /\ (circuitBreaker[p].state = "CLOSED" /\ streak[p] < FailureThreshold
              /\ streak'[p] >= FailureThreshold)
                => circuitBreaker'[p].state = "OPEN"]_vars

\* C5: a call admitted in HALF_OPEN that returns, from the provider or from
\* the cache, leaves the breaker CLOSED with failure count 0, and one that
\* fails leaves it OPEN.
C5_HalfOpenOutcome ==
    [][\A s \in Slots :
          (calls[s].seen = "half" /\ InFlight(calls[s]) /\ Settled(calls'[s])) =>
              /\ calls'[s].pc = "returned" =>
                    /\ circuitBreaker'[calls[s].svc].state = "CLOSED"
                    /\ circuitBreaker'[calls[s].svc].failures = 0
              /\ calls'[s].pc = "thrown" =>
                    circuitBreaker'[calls[s].svc].state = "OPEN"]_vars

\* C6: the breaker state changes only along CLOSED->OPEN, OPEN->HALF_OPEN,
\* HALF_OPEN->CLOSED and HALF_OPEN->OPEN.
C6_BreakerTransitions ==
    [][\A p \in Providers :
          circuitBreaker'[p].state # circuitBreaker[p].state =>
              <<circuitBreaker[p].state, circuitBreaker'[p].state>> \in
                  {<<"CLOSED", "OPEN">>, <<"OPEN", "HALF_OPEN">>,
                   <<"HALF_OPEN", "CLOSED">>, <<"HALF_OPEN", "OPEN">>}]_vars

\* C7: a call started while the breaker is OPEN and less than 60 s after the
\* last failure, getCurrentWeather or getForecast, fails at once and makes no
\* request.
C7_OpenRejectsEveryCall ==
    [][\A s \in DirectSlots :
          (Started(s) /\ BreakerGate(circuitBreaker[calls'[s].svc], now) = "reject") =>
              calls'[s].pc = "thrown" /\ calls'[s].net = 0]_vars

\* C8: a call rejected because the breaker is OPEN changes nothing of the
\* breaker: failure count, lastFailureTime and state stay as they are, so
\* the time at which the next call is admitted stays the same.
C8_RejectLeavesBreaker ==
    [][\A s \in DirectSlots :
          (Started(s) /\ calls'[s].seen = "reject") =>
              /\ circuitBreaker' = circuitBreaker
              /\ calls'[s].pc = "thrown" /\ calls'[s].net = 0 /\ calls'[s].logs = 0]_vars

\* a call was rejected, more than once in a row, and the breaker is as the
\* fifth failure left it
C8_Witness ==
    \E s \in DirectSlots :
        /\ calls[s].seen = "reject" /\ calls[s].pc = "thrown"
        /\ streak[calls[s].svc] = FailureThreshold + 2
        /\ circuitBreaker[calls[s].svc] = WarmBreaker(FailureThreshold)

\* C9: when the answer is sent, every provider in errors has a log entry
\* with status error for that provider and the requested location.
C9_EveryErrorLogged ==
    agg.pc = "responded" =>
        \A p \in Sources(errors) :
            \E i \in 1..Len(query_logs) :
                /\ query_logs[i].apiName = p
                /\ query_logs[i].location = agg.location
                /\ query_logs[i].status = "error"

\* C10 as stated: a call made while an unexpired entry exists for its
\* location and provider returns the cached record without a request and
\* with one log entry.
C10_FreshEntryServed ==
    \A s \in DirectSlots :
        (calls[s].op = "current" /\ calls[s].fresh /\ calls[s].pc # "cache") =>
            /\ calls[s].pc = "returned" /\ calls[s].hit
            /\ calls[s].net = 0 /\ calls[s].logs = 1

\* C10: when a call that passed the key check and the breaker reads the
\* cache and an unexpired entry exists, it returns the cached record, makes
\* no request and appends exactly one log entry: responseTime 0, status
\* success, marked as coming from the cache.
C10_CacheHit ==
    [][\A s \in Slots :
          (calls[s].pc = "cache" /\ calls'[s] # calls[s]
           /\ Unexpired(calls[s].loc, calls[s].svc, now)) =>
              /\ calls'[s].pc = "returned" /\ calls'[s].hit
              /\ calls'[s].valid = weather_cache[<<calls[s].loc, calls[s].svc>>].valid
              /\ calls'[s].net = 0 /\ calls'[s].logs = 1
              /\ query_logs' = Append(query_logs,
                     LogEntry(calls[s].svc, calls[s].loc, "cache", 0, "success", FALSE))
              /\ weather_cache' = weather_cache]_vars

\* a call found the unexpired entry and returned it
C10_Witness ==
    \E s \in DirectSlots :
        /\ calls[s].pc = "returned" /\ calls[s].hit /\ calls[s].fresh
        /\ calls[s].net = 0 /\ calls[s].logs = 1
        /\ query_logs[Len(query_logs)] =
               LogEntry(calls[s].svc, calls[s].loc, "cache", 0, "success", FALSE)

\* C11: getCachedWeather returns a stored record only while fewer than 5
\* minutes have passed since setCachedWeather stored it: every cache read
\* that ends a getCurrentWeather call with the cached record happens before
\* the entry's expiry time, so a call made 5 minutes or more after the store
\* goes on to the provider.
C11_ExpiresAfterTtl ==
    [][\A s \in Slots :
          (calls[s].pc = "cache" /\ calls'[s].pc = "returned" /\ calls'[s].hit)
              => Unexpired(calls[s].loc, calls[s].svc, now)]_vars

\* the number of records whose raw value for the metric is present
PresentCount(metric) ==
    Cardinality({i \in 1..Len(weatherObjects) : ~weatherObjects[i][metric].null})

\* C12: for every metric the comparison's count, and the length of its
\* values, is the number of records whose raw value for the metric is
\* present, a value of 0 included; the metric's result is null only when no
\* record has a value.
C12_CountsPresentValues ==
    ~comparison.null =>
        \A m \in MetricNames :
            IF PresentCount(m) = 0 THEN comparison[m].null
            ELSE /\ ~comparison[m].null
                 /\ comparison[m].count = PresentCount(m)
                 /\ Len(comparison[m].values) = PresentCount(m)

\* C13: in every non-null metric result min <= median <= max and
\* min <= mean <= max.
C13_OrderedStatistics ==
    ~comparison.null =>
        \A m \in MetricNames :
            ~comparison[m].null =>
                /\ comparison[m].min <= comparison[m].median
                /\ comparison[m].median <= comparison[m].max
                /\ comparison[m].min <= comparison[m].mean
                /\ comparison[m].mean <= comparison[m].max

\* C14: the reported median is the middle element of the sorted values for
\* an odd count and the exact average of the two middle elements for an
\* even count, and the reported variance is the population variance (the
\* sum of squared deviations divided by N), rounded to two decimals.
C14_MedianAndVariance ==
    ~comparison.null =>
        \A m \in MetricNames :
            ~comparison[m].null =>
                LET r == comparison[m]
                    sorted == SortAscending(r.values)
                    n == r.count
                    half == n \div 2
                    \* n * (value - mean), squared and summed: n^2 * sum of squared deviations
                    sq == Sum([i \in 1..n |-> (n * r.values[i] - Sum(r.values))
                                               * (n * r.values[i] - Sum(r.values))])
                IN  /\ n % 2 = 1 => r.median = sorted[half + 1]
                    /\ n % 2 = 0 => 2 * r.median = sorted[half] + sorted[half + 1]
                    /\ r.variance = RoundDiv(sq, 100 * n * n * n)

\* the records' celsius values are 10, 12 and 14, and they were compared
TenTwelveFourteen ==
    /\ ~comparison.null
    /\ Len(weatherObjects) = 3
    /\ SortAscending([i \in 1..3 |-> weatherObjects[i].temperature.num])
           = <<1000, 1200, 1400>>

\* C15 as stated: for celsius values 10, 12 and 14 the temperature
\* comparison has count 3, mean 12.0, median 12, variance 2.67, standard
\* deviation 1.63 and agreement true.
C15_ScenarioAgrees ==
    TenTwelveFourteen =>
        /\ comparison.temperature.count = 3
        /\ comparison.temperature.mean = 1200
        /\ comparison.temperature.median = 1200
        /\ comparison.temperature.variance = 267
        /\ comparison.temperature.standardDeviation = 163
        /\ comparison.temperature.agreement = TRUE

\* C15, amended: for celsius values 10, 12 and 14 the temperature comparison
\* has count 3, mean 12.0, median 12, variance 2.67, standard deviation 1.63
\* and agreement false, since 1.63 < 0.1 x 12 does not hold.
C15_ScenarioDisagrees ==
    TenTwelveFourteen =>
        /\ comparison.temperature.count = 3
        /\ comparison.temperature.mean = 1200
        /\ comparison.temperature.median = 1200
        /\ comparison.temperature.variance = 267
        /\ comparison.temperature.standardDeviation = 163
        /\ comparison.temperature.agreement = FALSE

\* the three records, in the order 10, 12, 14, have been compared
C15_Witness ==
    /\ TenTwelveFourteen
    /\ comparison.temperature.values = <<1000, 1200, 1400>>

\* C16: consensus.temperature, consensus.humidity and consensus.pressure are
\* the full-precision mean of the values rounded to the nearest integer, and
\* consensus.windSpeed is the full-precision mean rounded to one decimal.
C16_ConsensusRounding ==
    ~comparison.null =>
        /\ \A m \in {"temperature", "humidity", "pressure"} :
               ~comparison[m].null =>
                   comparison.consensus[m] =
                       Num(RoundDiv(Sum(comparison[m].values), 100 * comparison[m].count))
        /\ ~comparison.windSpeed.null =>
               comparison.consensus.windSpeed =
                   Num(RoundDiv(Sum(comparison.windSpeed.values), 10 * comparison.windSpeed.count))

\* the position of the first record with the condition
FirstIndex(c) ==
    CHOOSE i \in 1..Len(weatherObjects) :
        /\ weatherObjects[i].main = c
        /\ \A j \in 1..(i - 1) : weatherObjects[j].main # c

\* C17: the weather-condition consensus has the maximal number of votes
\* among the records' weather.main values, and of the conditions that tie
\* for the maximum it is the one met first in iteration order.
C17_ConditionConsensus ==
    (~metrics.null /\ metrics.weatherCondition.present) =>
        LET all == [i \in 1..Len(weatherObjects) |-> weatherObjects[i].main]
            best == metrics.weatherCondition.consensus[1]
        IN  /\ \A c \in Conditions : Votes(all, c) <= Votes(all, best)
            /\ \A c \in Conditions :
                   (Votes(all, c) = Votes(all, best) /\ c # best) => FirstIndex(best) < FirstIndex(c)

\* the statistics an entry must have over the rows q, when latency is taken
\* over the rows with responseTime > 0 and the counts over every row
LatencyOverPositive(entry, q) ==
    LET times == Positive(ResponseTimes(q))
    IN  /\ entry.averageResponseTime =
               (IF Len(times) = 0 THEN 0 ELSE RoundDiv(Sum(times), Len(times)))
        /\ entry.medianResponseTime = calculateMedian(times, 1)
        /\ entry.total = Len(q)
        /\ entry.successful = Successes(q)
        /\ entry.failed = Errors(q)
        /\ entry.successRate = RoundDiv(100 * Successes(q), Len(q))

\* C18: in the overall statistics and in every per-API and per-day entry,
\* averageResponseTime and medianResponseTime are taken over the rows with
\* responseTime > 0 only, and total, successful, failed and successRate =
\* round(100 x successful / total) count every row.
C18_LatencyExcludesCacheHits ==
    /\ (report.of = "calculateStats" /\ Len(logs) > 0) =>
           LatencyOverPositive(report.stats, logs)
    /\ report.of = "calculateApiBreakdown" =>
           \A a \in DOMAIN report.groups : LatencyOverPositive(report.groups[a], OfApi(logs, a))
    /\ report.of = "getAccuracyHistory" =>
           \A k \in DOMAIN report.daily :
               LatencyOverPositive(report.daily[k], OfDate(OfApi(logs, k[1]), k[2]))

\* C19: getQueryStats returns totalQueries = number of rows,
\* successfulQueries + failedQueries = totalQueries, successRate =
\* round(100 x successfulQueries / totalQueries) and averageResponseTime =
\* round(sum of response_time / totalQueries); response times 500, 600,
\* 1000 with statuses success, success, error give 3, 67 and 700, and an
\* empty sequence gives 0 for all of them.
C19_QueryStats ==
    report.of = "getQueryStats" =>
        LET r == report.query
            times == [i \in 1..Len(logs) |-> logs[i].responseTime]
            ok == Cardinality({i \in 1..Len(logs) : logs[i].status = "success"})
        IN  /\ r.totalQueries = Len(logs)
            /\ r.successfulQueries + r.failedQueries = r.totalQueries
            /\ r.successfulQueries = ok
            /\ Len(logs) > 0 =>
                   /\ 2 * 100 * ok - Len(logs) < 2 * Len(logs) * r.successRate
                   /\ 2 * Len(logs) * r.successRate <= 2 * 100 * ok + Len(logs)
                   /\ 2 * Sum(times) - Len(logs) < 2 * Len(logs) * r.averageResponseTime
                   /\ 2 * Len(logs) * r.averageResponseTime <= 2 * Sum(times) + Len(logs)
            /\ Len(logs) = 0 => r = NoQueryStats
            /\ (times = <<500, 600, 1000>>
                 /\ [i \in 1..Len(logs) |-> logs[i].status] = <<"success", "success", "error">>) =>
                   /\ r.totalQueries = 3 /\ r.successRate = 67 /\ r.averageResponseTime = 700

\* getQueryStats has answered for 500, 600, 1000 / success, success, error
C19_Witness ==
    /\ report.of = "getQueryStats"
    /\ [i \in 1..Len(logs) |-> logs[i].responseTime] = <<500, 600, 1000>>
    /\ [i \in 1..Len(logs) |-> logs[i].status] = <<"success", "success", "error">>
    /\ report.query.averageResponseTime = 700

\* C20: for each adapter, normalizing the same payload at two different
\* clock times gives identical canonical records.
C20_NormalizeIdempotent ==
    (Len(normalized) = 2 /\ normalized[1].at # normalized[2].at) =>
        normalized[1].record = normalized[2].record

\* C21: in a record made by an adapter and then standardized, an optional
\* numeric field that the payload lacks is null, and a field that the
\* payload has, with value 0 too, is not null: a payload without the field
\* and a payload with the field at 0 give different records.
C21_AbsentIsNotZero ==
    \A i \in 1..Len(normalized) :
        \A f \in OptionalFields(payload.provider) :
            /\ payload[f].null => normalized[i].standardized[f] = Null
            /\ ~payload[f].null => normalized[i].standardized[f] # Null

\* C22 (as stated): once a key is stored for a location string, every later
\* getLocationKey for that string returns that same entry: the stored entry
\* never changes.
C22_SameEntry ==
    [][\A loc \in Locations :
          locationCache[loc] # "none" => locationCache'[loc] = locationCache[loc]]_vars

\* a lookup of slot s is waiting for the provider
LookupInFlight(c) == c.pc \in {"loc", "floc"}

\* C22 (amended): a stored entry is never removed, at any later time; a call
\* that starts while an entry is stored for its location string issues no
\* location search; only a lookup that is in flight replaces an entry; a
\* lookup that fails leaves the cache as it was, so that the next call for
\* that string asks the provider again.
C22_LocationKeyCached ==
    [][/\ \A loc \in Locations :
             /\ locationCache[loc] # "none" => locationCache'[loc] # "none"
             /\ locationCache'[loc] # locationCache[loc] =>
                    \E s \in Slots : /\ LookupInFlight(calls[s])
                                     /\ calls[s].loc = loc
                                     /\ ~LookupInFlight(calls'[s])
                                     /\ calls'[s].pc # "thrown"
       /\ \A s \in Slots :
             /\ (LookupInFlight(calls'[s]) /\ ~LookupInFlight(calls[s]))
                    => locationCache[calls'[s].loc] = "none"
             /\ (LookupInFlight(calls[s]) /\ calls'[s].pc = "thrown")
                    => locationCache' = locationCache
       /\ \A s \in DirectSlots :
             (/\ ~InFlight(calls[s]) /\ InFlight(calls'[s])
              /\ calls'[s].svc = "AccuWeather" /\ calls'[s].pc # "cache"
              /\ locationCache[calls'[s].loc] = "none")
                    => LookupInFlight(calls'[s])]_vars

\* a call that started after a tick found the key stored and went to the
\* provider's data endpoint with one request, no location search
C22_Witness ==
    \E s \in Slots :
        /\ calls[s].svc = "AccuWeather"
        /\ calls[s].pc \in {"net", "fnet"}
        /\ calls[s].net = 1
        /\ calls[s].logs = 0
        /\ ticks > 0
        /\ locationCache[calls[s].loc] # "none"

\* the length rule of every route: 2 to 100 characters, not empty
LengthValid(location) == Len(location) >= 2 /\ Len(location) <= 100

\* C23: a request whose location fails the validation of its route (empty,
\* or shorter than 2 or longer than 100 characters) is rejected, on the
\* single-source and on the comparison endpoints, and no provider adapter
\* is invoked.
C23_InvalidRejected ==
    (reply # NoRes /\ ~LengthValid(request.location)) =>
        (reply.status = 400 /\ reply.invoked = {})

\* C24: for every adapter and every days in 1..5, the forecast returned by
\* getForecast(location, days) has at most days entries, one per calendar
\* date, in chronological order, each with celsius.min <= celsius.max.
C24_ForecastShape ==
    forecast # <<>> =>
        /\ Len(forecast) <= forecastCall.days
        /\ \A i, j \in 1..Len(forecast) : i < j => forecast[i].date < forecast[j].date
        /\ \A i \in 1..Len(forecast) : forecast[i].min <= forecast[i].max

\* C25: in every reachable state of an adapter, whatever the interleaving
\* of getCurrentWeather calls that succeed, fail, hit the cache or are
\* fast-failed, the breaker is CLOSED if and only if its failure count is
\* below 5; OPEN or HALF_OPEN implies a failure count of at least 5.
C25_ClosedIffBelowThreshold ==
    \A p \in Providers :
        /\ circuitBreaker[p].state \in {"CLOSED", "OPEN", "HALF_OPEN"}
        /\ circuitBreaker[p].state = "CLOSED" <=> circuitBreaker[p].failures < 5

\* a call found the breaker OPEN after the timeout, made it HALF_OPEN and
\* was answered from the cache, while another call of the adapter has
\* failed since: the breaker is open again with a count above the threshold
C25_Witness ==
    \E s, r \in Slots :
        /\ s # r
        /\ calls[s].svc = calls[r].svc
        /\ calls[s].seen = "half"
        /\ calls[r].pc = "thrown"
        /\ calls[r].net > 0
        /\ circuitBreaker[calls[s].svc].state = "OPEN"
        /\ circuitBreaker[calls[s].svc].failures > 5

\* the log entries appended by the step
Appended == {i \in 1..Len(query_logs') : i > Len(query_logs)}

\* C26: the status of a log entry matches the outcome of the call that
\* wrote it: a call that throws (network error, malformed payload, failing
\* cache write) appends entries with status error only, so an entry with
\* status success is appended only by a call that does not throw.
C26_LogStatusMatchesOutcome ==
    [][\A s \in Slots :
          (InFlight(calls[s]) /\ calls'[s].pc = "thrown") =>
              \A i \in Appended : query_logs'[i].status = "error"]_vars

\* C27: only records that pass Weather.isValid are ever stored in the
\* response cache, so that after a call whose record the aggregator reports
\* as invalid the next call for that location and provider cannot be
\* answered with that record from the cache.
C27_OnlyValidCached ==
    \A key \in Locations \X Providers :
        weather_cache[key].present => weather_cache[key].valid

\* the providers that succeeded, in the order of the services array
InServiceOrder == SelectSeq(Services, LAMBDA p : \E i \in 1..Len(results) : results[i] = p)

\* C28: for fixed provider responses the output of an aggregation is the
\* same for every order in which the provider calls complete: the values
\* sequences of the comparison, the weather-condition consensus and the
\* base location of mergeSources are those of the order of the services
\* array, whichever provider finishes first.
C28_OrderIndependent ==
    (agg.pc = "responded" /\ Len(results) > 0) =>
        LET inOrder == [i \in 1..Len(InServiceOrder) |-> ProviderRecord(InServiceOrder[i])]
        IN  IF agg.handler = "compare"
            THEN /\ \A metric \in MetricNames :
                        comparison[metric].values =
                            performDetailedComparison(inOrder)[metric].values
                 /\ metrics.weatherCondition.consensus =
                        calculateAccuracyMetrics(inOrder).weatherCondition.consensus
            ELSE merged.location = mergeSources(InServiceOrder).location

\* C29: after any set of logQuery calls for an API name and day has
\* completed, concurrent calls included, the api_metrics row counts every
\* call: total_requests is the number of calls, successful_requests +
\* failed_requests = total_requests, and no call failed on the
\* UNIQUE(api_name, date) constraint.
C29_MetricsCountEveryCall ==
    (\A w \in LogCallers : metricCalls[w].pc \in {"idle", "done", "failed"}) =>
        /\ api_metrics.total_requests = logged
        /\ api_metrics.successful_requests + api_metrics.failed_requests
               = api_metrics.total_requests
        /\ \A w \in LogCallers : metricCalls[w].pc # "failed"

\* every source reports the same value for the metric
SameValue(metric) ==
    \A i \in 1..Len(weatherObjects) :
        /\ ~weatherObjects[i][metric].null
        /\ weatherObjects[i][metric] = weatherObjects[1][metric]

\* C30: whenever all sources report the same value for a metric (standard
\* deviation 0), a negative temperature and a value of 0 included, the
\* comparison has a result for that metric and its agreement is true.
C30_SameValueAgrees ==
    \A metric \in MetricNames :
        (~comparison.null /\ SameValue(metric)) =>
            (~comparison[metric].null /\ comparison[metric].agreement)

====
